---- MODULE Spec2Model ----
(***************************************************************************)
(* Model of simplecoin/tasks.py: the share ledger, the block lifecycle,    *)
(* the PPLNS payout, the share cleanup and the worker threshold monitor.  *)
(*                                                                         *)
(* Every celery task is one atomic action: a task works inside one         *)
(* database session and either commits or rolls back.  payout.delay() in   *)
(* add_block only enqueues the payout task, so Payout is an action of its  *)
(* own that is enabled at any time (scheduler delivery, retry, re-run).    *)
(***************************************************************************)
EXTENDS Integers, Sequences, FiniteSets, Bags, TLC

VARIABLES
    ledger,        \* Share table: sequence of [id, user, shares], ids ascending
    nextId,        \* next Share.id the database hands out
    blocks,        \* Block table: sequence of block records, index = Block.id
    payouts,       \* Payout table: bag of rows
    bonusPayouts,  \* BonusPayout table: bag of rows
    lastRun,       \* observation: what the most recent task run did
    lastPoll,      \* observation: the node's answers in the most recent poll
    aggIn,         \* aggregation harness: the inputs of the walk
    aggOut,        \* aggregation harness: the result of the walk
    thresh,        \* Threshold row of one (user, worker)
    statusAge,     \* minutes since the worker's Status row was written, -1 = no row
    lastSample,    \* observation: the most recent telemetry sample and its effect
    percConfig,    \* DonationPercent rows and config['default_perc']
    minuteRows,    \* OneMinuteShare / OneMinuteReject rows of one (user, minute, worker)
    minuteTasks,   \* the add_one_minute tasks in flight: position and arguments
    blockCache,    \* cache list 'block_cache': the bits pushed, newest first
    difficultyAvg, \* cache key 'difficulty_avg' as the fraction total / n; n = 0: absent
    cacheNet,      \* cache keys 'blockheight', 'difficulty', 'reward'; blockheight 0: absent
    netdiff,       \* the OneMinuteType 'netdiff' row of the current second, num / den
    payTasks       \* payout tasks run as overlapping transactions: position, pending writes

vars == <<ledger, nextId, blocks, payouts, bonusPayouts, lastRun, lastPoll,
          aggIn, aggOut, thresh, statusAge, lastSample, percConfig,
          minuteRows, minuteTasks, blockCache, difficultyAvg, cacheNet, netdiff,
          payTasks>>

poolVars == <<ledger, nextId, blocks, payouts, bonusPayouts, lastRun>>
aggVars  == <<aggIn, aggOut>>
monVars  == <<thresh, statusAge, lastSample>>
cacheVars == <<blockCache, difficultyAvg, cacheNet, netdiff>>
extVars  == <<percConfig, minuteRows, minuteTasks, cacheVars, payTasks>>

(***************************************************************************)
(* Bounds of the model and configuration of the application.               *)
(***************************************************************************)
MaxShares == 3          \* Share rows ever inserted
MaxBlocks == 2          \* Block rows ever inserted

Users == {"A", "B"}
None == 0               \* a NULL id; Share ids start at 1

LastN == 1              \* current_app.config['last_n']
CleanupN == 0           \* current_app.config.get('cleanup_n', 4)
BlockBonus == 1         \* current_app.config.get('block_bonus', 0)
MatureDiff == 5         \* current_app.config['block_mature_confirms']
HardDiff == 1100        \* cleanup: diff = 1100.0
TwoPow16 == 65536       \* 2 ** 16
DonateAddress == "donate"

\* Difficulties of the blocks found (Block.bits, kept as the difficulty it encodes).
BitsSet == {550, 1100}
\* n1 share counts of one Share row: none, half and all of a difficulty-550 window.
ShareAmounts == {0, 18022400, 36044800}
TotalValues == {5}
Heights == {1, 2}
\* DonationPercent.perc / default_perc: percentages whose /100.0 is exact in binary.
Percs == {-50, 0, 50}

(***************************************************************************)
(* Helpers.                                                                *)
(***************************************************************************)
RECURSIVE SumF(_)
SumF(f) ==
    IF DOMAIN f = {} THEN 0
    ELSE LET k == CHOOSE x \in DOMAIN f : TRUE
         IN f[k] + SumF([x \in DOMAIN f \ {k} |-> f[x]])

RECURSIVE SumRows(_)
\* sum of amount * copies over a bag of rows
SumRows(bag) ==
    IF DOMAIN bag = {} THEN 0
    ELSE LET r == CHOOSE x \in DOMAIN bag : TRUE
         IN r.amount * bag[r] + SumRows([x \in DOMAIN bag \ {r} |-> bag[x]])

Perms(S) == {p \in [1..Cardinality(S) -> S] : \A a, b \in 1..Cardinality(S) : p[a] = p[b] => a = b}

\* cryptokit.bits_to_shares: the n1 shares a block of this difficulty takes.
bits_to_shares(bits) == bits * TwoPow16

\* SharesDesc without the row of the cursor: where(Share.id < start).
SharesDesc_BelowCursor(led, start) ==
    LET kept == SelectSeq(led, LAMBDA r : r.id < start)
    IN [i \in 1..Len(kept) |-> kept[Len(kept) + 1 - i]]

\* select(...).order_by(Share.id.desc()).where(Share.id <= start): newest first.
SharesDesc(led, start) ==
    LET kept == SelectSeq(led, LAMBDA r : r.id <= start)
    IN [i \in 1..Len(kept) |-> kept[Len(kept) + 1 - i]]

\* select(...).order_by(Share.id.desc()): the whole ledger, newest first.
AllSharesDesc(led) == [i \in 1..Len(led) |-> led[Len(led) + 1 - i]]

\* user_shares.setdefault(user, 0)
SetDefault(f, k) == IF k \in DOMAIN f THEN f ELSE f @@ (k :> 0)

(***************************************************************************)
(* The windowed walk of payout (and of update_pplns_est): credit whole     *)
(* rows while remain > shares, then credit remain to the row's user, stop. *)
(* stop_id is the id of the row the walk stopped at, None when it ran off  *)
(* the end of the rows.                                                    *)
(***************************************************************************)
RECURSIVE WalkFrom_WholeLastRow(_, _, _, _)
\* WalkFrom crediting the whole of the last row instead of what remains.
WalkFrom_WholeLastRow(rows, i, remain, acc) ==
    IF i > Len(rows)
    THEN [user_shares |-> acc, remain |-> remain, stop_id |-> None]
    ELSE LET r == rows[i]
             a0 == SetDefault(acc, r.user)
         IN IF remain > r.shares
            THEN WalkFrom_WholeLastRow(rows, i + 1, remain - r.shares,
                                       [a0 EXCEPT ![r.user] = @ + r.shares])
            ELSE [user_shares |-> [a0 EXCEPT ![r.user] = @ + r.shares],
                  remain |-> 0, stop_id |-> r.id]

RECURSIVE WalkFrom_PastExactFit(_, _, _, _)
\* WalkFrom going on after a row that fits exactly (remain >= shares).
WalkFrom_PastExactFit(rows, i, remain, acc) ==
    IF i > Len(rows)
    THEN [user_shares |-> acc, remain |-> remain, stop_id |-> None]
    ELSE LET r == rows[i]
             a0 == SetDefault(acc, r.user)
         IN IF remain >= r.shares
            THEN WalkFrom_PastExactFit(rows, i + 1, remain - r.shares,
                                       [a0 EXCEPT ![r.user] = @ + r.shares])
            ELSE [user_shares |-> [a0 EXCEPT ![r.user] = @ + remain],
                  remain |-> 0, stop_id |-> r.id]

RECURSIVE WalkFrom(_, _, _, _)
WalkFrom(rows, i, remain, acc) ==
    IF i > Len(rows)
    THEN [user_shares |-> acc, remain |-> remain, stop_id |-> None]
    ELSE LET r == rows[i]
             a0 == SetDefault(acc, r.user)
         IN IF remain > r.shares
            THEN WalkFrom(rows, i + 1, remain - r.shares,
                          [a0 EXCEPT ![r.user] = @ + r.shares])
            ELSE [user_shares |-> [a0 EXCEPT ![r.user] = @ + remain],
                  remain |-> 0, stop_id |-> r.id]

Walk(rows, budget) == WalkFrom(rows, 1, budget, <<>>)

(***************************************************************************)
(* The walk of cleanup: the id of the first row, newest first, at which    *)
(* the counted shares reach total_shares; 0 when they never do.            *)
(***************************************************************************)
RECURSIVE StaleFrom_Exceeds(_, _, _, _)
\* StaleFrom stopping only where the counted shares exceed total_shares.
StaleFrom_Exceeds(rows, i, counted, total) ==
    IF i > Len(rows) THEN 0
    ELSE IF counted + rows[i].shares > total THEN rows[i].id
    ELSE StaleFrom_Exceeds(rows, i + 1, counted + rows[i].shares, total)

RECURSIVE StaleFrom(_, _, _, _)
StaleFrom(rows, i, counted, total) ==
    IF i > Len(rows) THEN 0
    ELSE IF counted + rows[i].shares >= total THEN rows[i].id
    ELSE StaleFrom(rows, i + 1, counted + rows[i].shares, total)

StaleId(rows, total) == StaleFrom(rows, 1, 0, total)

(***************************************************************************)
(* payout: the computation between the block query and the commit.         *)
(***************************************************************************)
\* Unprocessed without the processed=False filter.
Unprocessed_AnyState(bs) == {i \in 1..Len(bs) : ~bs[i].merged}

\* Unprocessed without the merged=False filter.
Unprocessed_AnyChain(bs) == {i \in 1..Len(bs) : ~bs[i].processed}

\* Block.query.filter_by(processed=False, merged=False)
Unprocessed(bs) == {i \in 1..Len(bs) : ~bs[i].processed /\ ~bs[i].merged}

\* OldestUnprocessed without the order_by(Block.height).
OldestUnprocessed_AnyHeight(bs) == Unprocessed(bs)

\* ... .order_by(Block.height).first(): a block of the lowest height, if any.
OldestUnprocessed(bs) ==
    {i \in Unprocessed(bs) : \A j \in Unprocessed(bs) : bs[i].height <= bs[j].height}

\* user_payouts[user] = (share_count * block.total_value) // total_shares
RawPayouts(user_shares, total_value, total_shares) ==
    [u \in DOMAIN user_shares |-> (user_shares[u] * total_value) \div total_shares]

\* The round robin over user_payouts in dictionary order ord, one unit per visit,
\* until accrued reaches block.total_value.
RoundRobin(raw, ord, total_value) ==
    LET n == Len(ord)
        rest == total_value - SumF(raw)
        pos(u) == CHOOSE i \in 1..n : ord[i] = u
    IN IF rest <= 0 THEN raw
       ELSE [u \in DOMAIN raw |->
                raw[u] + (rest \div n) + (IF pos(u) <= rest % n THEN 1 ELSE 0)]

(***************************************************************************)
(* (perc / 100.0) * payout in IEEE 754 double precision, for 0 < perc <=   *)
(* 100 and payouts below 2^31.  perc / 100.0 is the double m / 2^s nearest  *)
(* to perc/100, s = 52 + Shift(perc), and 100 * m = perc * 2^s +            *)
(* MantissaError(perc).  The product is the double nearest to              *)
(* perc*payout/100 + MantissaError(perc)*payout / (100 * 2^s): when         *)
(* perc*payout/100 is a whole number N it is N or a neighbour of N, and     *)
(* otherwise it has the floor and the ceiling of perc*payout/100.           *)
(***************************************************************************)
RECURSIVE ShiftFrom(_, _)
ShiftFrom(perc, t) == IF perc * 2^t >= 100 THEN t ELSE ShiftFrom(perc, t + 1)

\* the least t with perc * 2^t >= 100
Shift(perc) == ShiftFrom(perc, 0)

RECURSIVE Pow2Mod100(_)
Pow2Mod100(s) == IF s = 0 THEN 1 ELSE (2 * Pow2Mod100(s - 1)) % 100

\* 100 * m - perc * 2^s for the mantissa m of perc / 100.0 (round to nearest)
MantissaError(perc) ==
    LET r == (perc * Pow2Mod100(52 + Shift(perc))) % 100
    IN IF r = 0 THEN 0 ELSE IF r < 50 THEN -r ELSE 100 - r

RECURSIVE Log2(_)
Log2(n) == IF n < 2 THEN 0 ELSE 1 + Log2(n \div 2)

\* int(ceil((perc / 100.0) * payout))
FloatCeil(perc, payout) ==
    LET N == (perc * payout) \div 100
    IN IF (perc * payout) % 100 # 0 THEN N + 1
       ELSE IF N = 0 THEN 0
       ELSE IF 2 * MantissaError(perc) * payout > 100 * 2^(Shift(perc) + Log2(N))
       THEN N + 1
       ELSE N

\* int(floor((perc / 100.0) * payout)); below a power of two the doubles are
\* twice as dense
FloatFloor(perc, payout) ==
    LET N == (perc * payout) \div 100
        below == IF N = 2^Log2(N) THEN 4 ELSE 2
    IN IF (perc * payout) % 100 # 0 THEN N
       ELSE IF N = 0 THEN 0
       ELSE IF below * (-MantissaError(perc)) * payout > 100 * 2^(Shift(perc) + Log2(N))
       THEN N - 1
       ELSE N

\* donation = int(ceil((perc / 100.0) * payout)) for perc > 0
Donation(perc, payout) == FloatCeil(perc, payout)

\* bonus = int(floor((perc / 100.0) * payout)) after perc *= -1, for perc < 0
Bonus(perc, payout) == FloatFloor(-perc, payout)

\* custom_percs.get(user, default_perc)
UserPerc(config, user) ==
    IF user \in DOMAIN config.custom THEN config.custom[user] ELSE config.default_perc

\* user_perc_applied.get(user, 0): the donation, or -1 * bonus
PercApplied(perc, payout) ==
    IF perc > 0 THEN Donation(perc, payout)
    ELSE IF perc < 0 THEN -1 * Bonus(perc, payout)
    ELSE 0

Positive(x) == IF x > 0 THEN x ELSE 0

\* PayoutRows recording each user's amount as it was before the donation/bonus pass.
PayoutRows_BeforePass(b, user_payouts, user_shares, user_perc, applied) ==
    [r \in {[user |-> u, amount |-> user_payouts[u] + applied[u], block |-> b,
             shares |-> user_shares[u], perc |-> user_perc[u],
             perc_applied |-> applied[u]] : u \in DOMAIN user_payouts} |-> 1]

\* Payout.create(user, amount, block, user_shares[user], user_perc[user],
\*               user_perc_applied.get(user, 0)) for each user
PayoutRows(b, user_payouts, user_shares, user_perc, applied) ==
    [r \in {[user |-> u, amount |-> user_payouts[u], block |-> b,
             shares |-> user_shares[u], perc |-> user_perc[u],
             perc_applied |-> applied[u]] : u \in DOMAIN user_payouts} |-> 1]

\* The BonusPayout rows of a settled block: the donations, the finder's bonus.
BonusRows(b, blk, donation_total) ==
    [r \in (IF donation_total > 0
            THEN {[user |-> DonateAddress, amount |-> donation_total, block |-> b]}
            ELSE {})
           \cup
           (IF BlockBonus > 0
            THEN {[user |-> blk.user, amount |-> BlockBonus, block |-> b]}
            ELSE {}) |-> 1]

(***************************************************************************)
(* What one payout run of block b computes, with the users' percentages    *)
(* percs and the dictionary order ord.  outcome is "error" where the code  *)
(* raises (no last_share, a division by zero, a failed assert), "hang"     *)
(* where the round robin has no user to visit, "ok" otherwise.             *)
(***************************************************************************)
\* The walk of payout for block b: from block.last_share down, up to
\* bits_to_shares(block.bits) * last_n shares.
PayoutWalk(b) ==
    Walk(SharesDesc(ledger, blocks[b].last_share_id),
         bits_to_shares(blocks[b].bits) * LastN)

\* PayoutPlan going on to settle a block whose total_value is 0.
PayoutPlan_ZeroValueSettles(b, percs, ord) ==
    LET blk == blocks[b]
        budget == bits_to_shares(blk.bits) * LastN
        w == PayoutWalk(b)
        user_shares == w.user_shares
        total_shares == budget - w.remain
        failed == [outcome |-> "error", user_shares |-> user_shares,
                   pre |-> <<>>, final |-> <<>>, applied |-> <<>>,
                   donation_total |-> 0, bonus_total |-> 0]
    IN IF blk.last_share_id = None THEN failed
       ELSE IF DOMAIN user_shares # {} /\ total_shares = 0 THEN failed
       ELSE IF DOMAIN user_shares = {} THEN [failed EXCEPT !.outcome = "hang"]
       ELSE
         LET raw == RawPayouts(user_shares, blk.total_value, total_shares)
             pre == RoundRobin(raw, ord, blk.total_value)
             applied == [u \in DOMAIN pre |-> PercApplied(percs[u], pre[u])]
             final == [u \in DOMAIN pre |-> pre[u] - applied[u]]
             donation_total == SumF([u \in DOMAIN pre |-> Positive(applied[u])])
             bonus_total == SumF([u \in DOMAIN pre |-> Positive(-applied[u])])
         IN [outcome |-> "ok",
             user_shares |-> user_shares, pre |-> pre, final |-> final,
             applied |-> applied, donation_total |-> donation_total,
             bonus_total |-> bonus_total]

PayoutPlan(b, percs, ord) ==
    LET blk == blocks[b]
        budget == bits_to_shares(blk.bits) * LastN
        w == PayoutWalk(b)
        user_shares == w.user_shares
        total_shares == budget - w.remain
        failed == [outcome |-> "error", user_shares |-> user_shares,
                   pre |-> <<>>, final |-> <<>>, applied |-> <<>>,
                   donation_total |-> 0, bonus_total |-> 0]
    IN IF blk.last_share_id = None THEN failed
       ELSE IF DOMAIN user_shares # {} /\ total_shares = 0 THEN failed
       ELSE IF blk.total_value = 0 THEN failed
       ELSE IF DOMAIN user_shares = {} THEN [failed EXCEPT !.outcome = "hang"]
       ELSE
         LET raw == RawPayouts(user_shares, blk.total_value, total_shares)
             pre == RoundRobin(raw, ord, blk.total_value)
             accrued == IF SumF(raw) < blk.total_value THEN blk.total_value ELSE SumF(raw)
             applied == [u \in DOMAIN pre |-> PercApplied(percs[u], pre[u])]
             final == [u \in DOMAIN pre |-> pre[u] - applied[u]]
             donation_total == SumF([u \in DOMAIN pre |-> Positive(applied[u])])
             bonus_total == SumF([u \in DOMAIN pre |-> Positive(-applied[u])])
             asserts == /\ accrued = blk.total_value
                        /\ SumF(final) = blk.total_value + bonus_total - donation_total
         IN [outcome |-> IF asserts THEN "ok" ELSE "error",
             user_shares |-> user_shares, pre |-> pre, final |-> final,
             applied |-> applied, donation_total |-> donation_total,
             bonus_total |-> bonus_total]

NoRun == [op |-> "none", outcome |-> "none", block |-> 0, presum |-> 0,
          mature |-> FALSE, orphan |-> FALSE, stale_id |-> 0]

(***************************************************************************)
(* The tasks of the pool.                                                   *)
(***************************************************************************)
\* add_share(user, shares)
AddShare(user, shares) ==
    /\ nextId <= MaxShares
    /\ ledger' = Append(ledger, [id |-> nextId, user |-> user, shares |-> shares])
    /\ nextId' = nextId + 1
    /\ lastRun' = NoRun
    /\ UNCHANGED <<blocks, payouts, bonusPayouts>>

\* Block.create: last_share is the newest Share row, NULL on an empty table.
NewestShareId(led) == IF Len(led) = 0 THEN None ELSE led[Len(led)].id

\* add_block(user, height, total_value, transaction_fees, bits, hash_hex, merged)
AddBlock(user, height, total_value, bits, merged) ==
    /\ Len(blocks) < MaxBlocks
    /\ blocks' = Append(blocks,
                        [user |-> user, height |-> height, total_value |-> total_value,
                         bits |-> bits, last_share_id |-> NewestShareId(ledger),
                         merged |-> merged, mature |-> FALSE, orphan |-> FALSE,
                         processed |-> FALSE, donated |-> 0, bonus_payed |-> 0])
    /\ lastRun' = NoRun
    /\ UNCHANGED <<ledger, nextId, payouts, bonusPayouts>>

\* payout(simulate); percs is what DonationPercent and default_perc give each user;
\* observe says whether the run is recorded in lastRun.
Payout(simulate, percs, observe) ==
    \/ /\ OldestUnprocessed(blocks) = {}
       /\ lastRun' = IF observe
                      THEN [NoRun EXCEPT !.op = "payout", !.outcome = "noblock"]
                      ELSE NoRun
       /\ UNCHANGED <<ledger, nextId, blocks, payouts, bonusPayouts>>
    \/ \E b \in OldestUnprocessed(blocks) :
       \E ord \in Perms(DOMAIN PayoutWalk(b).user_shares) :
         LET plan == PayoutPlan(b, percs, ord)
             seen == [NoRun EXCEPT !.op = "payout", !.block = b,
                                   !.mature = blocks[b].mature,
                                   !.orphan = blocks[b].orphan,
                                   !.presum = SumF(plan.pre)]
             Seen(outcome) == IF observe THEN [seen EXCEPT !.outcome = outcome] ELSE NoRun
         IN /\ plan.outcome # "hang"
            /\ IF plan.outcome = "error"
               THEN /\ lastRun' = Seen("error")
                    /\ UNCHANGED <<blocks, payouts, bonusPayouts>>
               ELSE IF simulate
               THEN /\ lastRun' = Seen("simulated")
                    /\ UNCHANGED <<blocks, payouts, bonusPayouts>>
               ELSE /\ payouts' = payouts (+) PayoutRows(b, plan.final, plan.user_shares,
                                                          percs, plan.applied)
                    /\ blocks' = [blocks EXCEPT ![b].processed = TRUE,
                                                ![b].donated = plan.donation_total,
                                                ![b].bonus_payed = plan.bonus_total]
                    /\ bonusPayouts' = bonusPayouts (+)
                                       BonusRows(b, blocks[b], plan.donation_total)
                    /\ lastRun' = Seen("commit")
            /\ UNCHANGED <<ledger, nextId>>

\* len(Block.query.filter_by(processed=False, merged=False).all())
UnprocBlocks(bs) == Cardinality({i \in 1..Len(bs) : ~bs[i].processed /\ ~bs[i].merged})

\* total_shares of cleanup: diff is overwritten with 1100.0 before it is used.
CleanupBudget(bs) ==
    HardDiff * TwoPow16 * ((CleanupN + LastN) + UnprocBlocks(bs) * LastN)

\* Cleanup deleting the shares without clearing the blocks' cursors first.
Cleanup_KeepsCursors(simulate, observe) ==
    LET stale_id == StaleId(AllSharesDesc(ledger), CleanupBudget(blocks))
    IN /\ lastRun' = IF observe
                      THEN [NoRun EXCEPT !.op = "cleanup", !.stale_id = stale_id,
                              !.outcome = IF stale_id = 0 THEN "nothing"
                                          ELSE IF simulate THEN "simulated" ELSE "commit"]
                      ELSE NoRun
       /\ IF stale_id = 0 \/ simulate
          THEN UNCHANGED <<ledger, blocks>>
          ELSE /\ blocks' = blocks
               /\ ledger' = SelectSeq(ledger, LAMBDA r : r.id >= stale_id)
       /\ UNCHANGED <<nextId, payouts, bonusPayouts>>

\* Cleanup deleting and clearing in simulate mode too.
Cleanup_SimulateDeletes(simulate, observe) ==
    LET stale_id == StaleId(AllSharesDesc(ledger), CleanupBudget(blocks))
    IN /\ lastRun' = IF observe
                      THEN [NoRun EXCEPT !.op = "cleanup", !.stale_id = stale_id,
                              !.outcome = IF stale_id = 0 THEN "nothing"
                                          ELSE IF simulate THEN "simulated" ELSE "commit"]
                      ELSE NoRun
       /\ IF stale_id = 0
          THEN UNCHANGED <<ledger, blocks>>
          ELSE /\ blocks' = [i \in 1..Len(blocks) |->
                               IF blocks[i].last_share_id # None
                                  /\ blocks[i].last_share_id <= stale_id
                               THEN [blocks[i] EXCEPT !.last_share_id = None]
                               ELSE blocks[i]]
               /\ ledger' = SelectSeq(ledger, LAMBDA r : r.id >= stale_id)
       /\ UNCHANGED <<nextId, payouts, bonusPayouts>>

\* cleanup(simulate); observe says whether the run is recorded in lastRun.
Cleanup(simulate, observe) ==
    LET stale_id == StaleId(AllSharesDesc(ledger), CleanupBudget(blocks))
    IN /\ lastRun' = IF observe
                      THEN [NoRun EXCEPT !.op = "cleanup", !.stale_id = stale_id,
                              !.outcome = IF stale_id = 0 THEN "nothing"
                                          ELSE IF simulate THEN "simulated" ELSE "commit"]
                      ELSE NoRun
       /\ IF stale_id = 0 \/ simulate
          THEN UNCHANGED <<ledger, blocks>>
          ELSE /\ blocks' = [i \in 1..Len(blocks) |->
                               IF blocks[i].last_share_id # None
                                  /\ blocks[i].last_share_id <= stale_id
                               THEN [blocks[i] EXCEPT !.last_share_id = None]
                               ELSE blocks[i]]
               /\ ledger' = SelectSeq(ledger, LAMBDA r : r.id >= stale_id)
       /\ UNCHANGED <<nextId, payouts, bonusPayouts>>

(***************************************************************************)
(* update_block_state: one poll of the node.  The node's answers are the   *)
(* inputs: getblockcount() and, per immature non-orphan block, getblock(). *)
(***************************************************************************)
ChainHeights == {2, 12}
Confirmations == {0, 5, 6}
\* getblock(hash): the block with its confirmations, CoinRPCException
\* ("notfound"), or any other exception ("error").
AnswersOf(confs) == {[kind |-> "ok", confirmations |-> c] : c \in confs}
                    \cup {[kind |-> "notfound", confirmations |-> 0],
                          [kind |-> "error", confirmations |-> 0]}
Answers == AnswersOf(Confirmations)

\* Immature without the mature=False filter.
Immature_AnyMaturity(bs) == {i \in 1..Len(bs) : ~bs[i].orphan}

\* Block.query.filter_by(mature=False, orphan=False)
Immature(bs) == {i \in 1..Len(bs) : ~bs[i].mature /\ ~bs[i].orphan}

\* DecideBlock with the maturity test written >= instead of >.
DecideBlock_AtThreshold(blk, blockheight, output) ==
    IF output.kind = "notfound"
    THEN [blk EXCEPT !.orphan = TRUE]
    ELSE IF output.confirmations >= MatureDiff
    THEN [blk EXCEPT !.mature = TRUE]
    ELSE IF (blockheight - blk.height) > MatureDiff /\ output.confirmations < MatureDiff
    THEN [blk EXCEPT !.orphan = TRUE]
    ELSE blk

\* The body of the loop for one block.
DecideBlock(blk, blockheight, output) ==
    IF output.kind = "notfound"
    THEN [blk EXCEPT !.orphan = TRUE]
    ELSE IF output.confirmations > MatureDiff
    THEN [blk EXCEPT !.mature = TRUE]
    ELSE IF (blockheight - blk.height) > MatureDiff /\ output.confirmations < MatureDiff
    THEN [blk EXCEPT !.orphan = TRUE]
    ELSE blk

NoPoll == [blockheight |-> 0, outputs |-> <<>>, before |-> <<>>, committed |-> FALSE]

\* UpdateBlockState with CoinRPCException handled like any other exception.
UpdateBlockState_AbortsOnNotFound(blockheight, outputs, observe) ==
        LET failed == \E i \in Immature(blocks) : outputs[i].kind # "ok"
        IN /\ blocks' = IF failed THEN blocks
                        ELSE [i \in 1..Len(blocks) |->
                                IF i \in Immature(blocks)
                                THEN DecideBlock(blocks[i], blockheight, outputs[i])
                                ELSE blocks[i]]
           /\ lastPoll' = IF observe
                          THEN [blockheight |-> blockheight, outputs |-> outputs,
                                before |-> blocks, committed |-> ~failed]
                          ELSE lastPoll
           /\ lastRun' = NoRun
           /\ UNCHANGED <<ledger, nextId, payouts, bonusPayouts>>

\* update_block_state() with the node answering blockheight and outputs;
\* observe says whether the poll is recorded in lastPoll.
UpdateBlockState(blockheight, outputs, observe) ==
        LET failed == \E i \in Immature(blocks) : outputs[i].kind = "error"
        IN /\ blocks' = IF failed THEN blocks
                        ELSE [i \in 1..Len(blocks) |->
                                IF i \in Immature(blocks)
                                THEN DecideBlock(blocks[i], blockheight, outputs[i])
                                ELSE blocks[i]]
           /\ lastPoll' = IF observe
                          THEN [blockheight |-> blockheight, outputs |-> outputs,
                                before |-> blocks, committed |-> ~failed]
                          ELSE lastPoll
           /\ lastRun' = NoRun
           /\ UNCHANGED <<ledger, nextId, payouts, bonusPayouts>>

(***************************************************************************)
(* The pool: shares, blocks, polls, payouts and cleanups in any order.     *)
(***************************************************************************)
PoolInit ==
    /\ ledger = <<>>
    /\ nextId = 1
    /\ blocks = <<>>
    /\ payouts = EmptyBag
    /\ bonusPayouts = EmptyBag
    /\ lastRun = NoRun

NoAgg == [kind |-> "none", user_shares |-> <<>>, remain |-> 0, total |-> 0,
          stop_id |-> None]

AggIdle == /\ aggIn = [rows |-> <<>>, budget |-> 0, start |-> None]
           /\ aggOut = NoAgg

\* no Threshold row; a threshold of -1 stands for NULL
NoThresh == [exists |-> FALSE, temp_thresh |-> -1, hashrate_thresh |-> -1,
             offline_thresh |-> -1, temp_err |-> FALSE, hashrate_err |-> FALSE,
             offline_err |-> FALSE]

NoSample == [typ |-> "none", payload |-> <<>>, diff |-> 0, before |-> NoThresh,
             emitted |-> "none"]

MonIdle == /\ thresh = NoThresh
           /\ statusAge = -1
           /\ lastSample = NoSample

\* no DonationPercent row, default_perc at its default
NoPercs == [custom |-> <<>>, default_perc |-> 0]

PercIdle == percConfig = NoPercs

\* no add_one_minute task, no one-minute row
MinuteIdle == minuteRows = <<>> /\ minuteTasks = <<>>

\* no 'difficulty_avg' in the cache
NoAvg == [total |-> 0, n |-> 0]

\* no 'blockheight', 'difficulty', 'reward' in the cache
NoNet == [blockheight |-> 0, difficulty |-> 0, reward |-> 0]

\* no 'netdiff' row in the current second
NoNetdiff == [num |-> 0, den |-> 0]

\* an empty cache
CacheIdle == /\ blockCache = <<>>
             /\ difficultyAvg = NoAvg
             /\ cacheNet = NoNet
             /\ netdiff = NoNetdiff

\* no payout task delivered
PayIdle == payTasks = <<>>

ExtIdle == PercIdle /\ MinuteIdle /\ CacheIdle /\ PayIdle

Init ==
    /\ PoolInit
    /\ lastPoll = NoPoll
    /\ AggIdle
    /\ MonIdle
    /\ ExtIdle

\* The inputs of the pool specification.
PoolAmounts == {72089600}
PoolBits == {2200}
PoolFinders == {"A"}
PoolPercs == {50}
PoolConfirmations == {0, 6}

Next ==
    \/ \E user \in Users, shares \in PoolAmounts :
          AddShare(user, shares) /\ UNCHANGED <<lastPoll, aggVars, monVars, extVars>>
    \/ \E user \in PoolFinders, height \in Heights, total_value \in TotalValues,
          bits \in PoolBits, merged \in BOOLEAN :
          AddBlock(user, height, total_value, bits, merged)
          /\ lastPoll' = NoPoll
          /\ UNCHANGED <<aggVars, monVars, extVars>>
    \/ \E blockheight \in ChainHeights, outputs \in [Immature(blocks) -> AnswersOf(PoolConfirmations)] :
          UpdateBlockState(blockheight, outputs, FALSE) /\ UNCHANGED <<aggVars, monVars, extVars>>
    \/ \E simulate \in BOOLEAN, percs \in [Users -> PoolPercs] :
          Payout(simulate, percs, FALSE) /\ UNCHANGED <<lastPoll, aggVars, monVars, extVars>>
    \/ \E simulate \in BOOLEAN :
          Cleanup(simulate, FALSE) /\ UNCHANGED <<lastPoll, aggVars, monVars, extVars>>

Spec == Init /\ [][Next]_vars

(***************************************************************************)
(* The lifecycle alone: blocks are found and polled, every poll recorded.  *)
(***************************************************************************)
NextLife ==
    \/ \E user \in PoolFinders, height \in Heights, total_value \in TotalValues,
          bits \in PoolBits, merged \in BOOLEAN :
          AddBlock(user, height, total_value, bits, merged)
          /\ lastPoll' = NoPoll
          /\ UNCHANGED <<aggVars, monVars, extVars>>
    \/ \E blockheight \in ChainHeights, outputs \in [Immature(blocks) -> Answers] :
          UpdateBlockState(blockheight, outputs, TRUE) /\ UNCHANGED <<aggVars, monVars, extVars>>

SpecLife == Init /\ [][NextLife]_vars

(***************************************************************************)
(* Properties of the pool.                                                 *)
(***************************************************************************)
BlockIds == 1..Len(blocks)

\* the Payout rows of block b, with their multiplicities
RowsOf(bag, b) == [r \in {x \in DOMAIN bag : x.block = b} |-> bag[r]]

\* block b goes from unprocessed to processed in this step
Settles(b) == ~blocks[b].processed /\ blocks'[b].processed

C3_OrphanGetsNoPayout ==
    \A b \in BlockIds :
        blocks[b].orphan => ~blocks[b].processed /\ DOMAIN RowsOf(payouts, b) = {}

\* C4: a block's Payout rows are written at most once (one row per user, in the
\* step that sets processed), processed never goes back, and with no unprocessed
\* non-merged block left a further payout run changes no durable state.
C4_PayoutIdempotent ==
    [][/\ \A b \in BlockIds :
            /\ blocks[b].processed
               => blocks'[b].processed /\ RowsOf(payouts', b) = RowsOf(payouts, b)
            /\ RowsOf(payouts', b) # RowsOf(payouts, b)
               => Settles(b) /\ DOMAIN RowsOf(payouts, b) = {}
       /\ \A r \in DOMAIN payouts' :
            /\ payouts'[r] = 1
            /\ \A q \in DOMAIN payouts' : (q.block = r.block /\ q.user = r.user) => q = r
       /\ (\A b \in BlockIds : blocks[b].processed \/ blocks[b].merged)
            => payouts' = payouts /\ bonusPayouts' = bonusPayouts
      ]_vars

\* C4 witness: a block is settled with its rows and no block is left to settle,
\* so the next payout run is the second run after a successful one.
C4_Witness ==
    /\ \E b \in BlockIds : blocks[b].processed /\ DOMAIN RowsOf(payouts, b) # {}
    /\ \A b \in BlockIds : blocks[b].processed \/ blocks[b].merged

\* the Share ids in the table
ShareIds(led) == {led[i].id : i \in 1..Len(led)}

\* C5 (as claimed): no step deletes the Share row that is the last_share of an
\* unprocessed block (merged or not) when the step starts.
C5_CleanupKeepsCursorShare ==
    [][\A b \in BlockIds :
          (~blocks[b].processed /\ blocks[b].last_share_id \in ShareIds(ledger))
          => blocks[b].last_share_id \in ShareIds(ledger')]_vars

RECURSIVE SumShares(_, _)
\* the shares of the first k rows
SumShares(rows, k) == IF k = 0 THEN 0 ELSE rows[k].shares + SumShares(rows, k - 1)

\* the first position, newest first, at which the running total reaches budget;
\* 0 when the rows hold less than budget
ReachedAt(rows, budget) ==
    IF \E k \in 1..Len(rows) : SumShares(rows, k) >= budget
    THEN CHOOSE k \in 1..Len(rows) :
            /\ SumShares(rows, k) >= budget
            /\ \A j \in 1..(k - 1) : SumShares(rows, j) < budget
    ELSE 0

\* the Share ids the payout of block b counts: from its last_share down to the
\* row at which bits_to_shares(bits) * N shares are reached
WindowIds(b) ==
    LET rows == SharesDesc(ledger, blocks[b].last_share_id)
        k == ReachedAt(rows, blocks[b].bits * 65536 * LastN)
    IN {rows[i].id : i \in 1..(IF k = 0 THEN Len(rows) ELSE k)}

\* C6 (as claimed): no step deletes a Share row inside the window of an
\* unprocessed, non-merged block, or clears that block's last_share_id while the
\* block stays unprocessed.
C6_CleanupKeepsWindow ==
    [][\A b \in BlockIds :
          (~blocks[b].processed /\ ~blocks[b].merged /\ blocks[b].last_share_id # None)
          => /\ WindowIds(b) \subseteq ShareIds(ledger')
             /\ ~blocks'[b].processed
                => blocks'[b].last_share_id = blocks[b].last_share_id]_vars

\* C9: after a committed poll every block that was neither mature nor orphan is
\* decided by the node's answer: unknown hash => orphan; C > T => mature;
\* (H - B) > T and C < T => orphan; otherwise still pending.
C9_LifecycleDecision ==
    lastPoll.committed =>
      \A i \in 1..Len(lastPoll.before) :
        (~lastPoll.before[i].mature /\ ~lastPoll.before[i].orphan) =>
          LET known == lastPoll.outputs[i].kind = "ok"
              C == lastPoll.outputs[i].confirmations
              H == lastPoll.blockheight
              B == lastPoll.before[i].height
              T == MatureDiff
          IN /\ ~known => (blocks[i].orphan /\ ~blocks[i].mature)
             /\ (known /\ C > T) => (blocks[i].mature /\ ~blocks[i].orphan)
             /\ (known /\ C <= T /\ (H - B) > T /\ C < T)
                   => (blocks[i].orphan /\ ~blocks[i].mature)
             /\ (known /\ C <= T /\ ~((H - B) > T /\ C < T))
                   => (~blocks[i].orphan /\ ~blocks[i].mature)

\* C9 witness: the example C = 0, H - B = 10, T = 5 ends with orphan = true.
C9_Witness ==
    /\ lastPoll.committed
    /\ MatureDiff = 5
    /\ \E i \in 1..Len(lastPoll.before) :
          /\ ~lastPoll.before[i].mature /\ ~lastPoll.before[i].orphan
          /\ lastPoll.outputs[i] = [kind |-> "ok", confirmations |-> 0]
          /\ lastPoll.blockheight - lastPoll.before[i].height = 10
          /\ blocks[i].orphan

(***************************************************************************)
(* The payout computation alone: a ledger and one found block, drawn from   *)
(* the cases of the walk (partial last row, exact fit, exhausted ledger,    *)
(* zero-share rows, shares appended after the block), then payout runs.     *)
(***************************************************************************)
PayBits == {550, 1100}
PayValues == {0, 5}

LedgerOf(f) == [i \in DOMAIN f |-> [id |-> i, user |-> f[i][1], shares |-> f[i][2]]]

PayInit ==
    /\ \E n \in 1..MaxShares :
         /\ \E f \in [1..n -> Users \X ShareAmounts] : ledger = LedgerOf(f)
         /\ nextId = n + 1
         /\ \E start \in 1..n, bits \in PayBits, total_value \in PayValues :
               blocks = <<[user |-> "A", height |-> 1, total_value |-> total_value,
                           bits |-> bits, last_share_id |-> start,
                           merged |-> FALSE, mature |-> FALSE, orphan |-> FALSE,
                           processed |-> FALSE, donated |-> 0, bonus_payed |-> 0]>>
    /\ payouts = EmptyBag
    /\ bonusPayouts = EmptyBag
    /\ lastRun = NoRun
    /\ lastPoll = NoPoll
    /\ AggIdle
    /\ MonIdle
    /\ ExtIdle

NextPayout ==
    \E simulate \in BOOLEAN, percs \in [Users -> Percs] :
        Payout(simulate, percs, TRUE) /\ UNCHANGED <<lastPoll, aggVars, monVars, extVars>>

SpecPayout == PayInit /\ [][NextPayout]_vars

\* C1: after a payout run that commits, the per-user amounts before the
\* donation/bonus pass sum to block.total_value, and the Payout rows written for
\* the block sum to block.total_value + bonus_total - donation_total.
C1_PayoutSums ==
    (lastRun.op = "payout" /\ lastRun.outcome = "commit") =>
        LET blk == blocks[lastRun.block]
        IN /\ lastRun.presum = blk.total_value
           /\ SumRows(RowsOf(payouts, lastRun.block))
                 = blk.total_value + blk.bonus_payed - blk.donated

\* C1 witness: a committed run over an exhausted ledger (fewer shares at or
\* below the cursor than the budget) that took a donation and paid a bonus.
C1_Witness ==
    /\ lastRun.op = "payout" /\ lastRun.outcome = "commit"
    /\ SumShares(SharesDesc(ledger, blocks[lastRun.block].last_share_id),
                 Len(SharesDesc(ledger, blocks[lastRun.block].last_share_id)))
          < blocks[lastRun.block].bits * 65536 * LastN
    /\ blocks[lastRun.block].donated > 0
    /\ blocks[lastRun.block].bonus_payed > 0

(***************************************************************************)
(* The walks alone, on a drawn ledger, budget and cursor: the loop of       *)
(* payout (from the cursor), of update_pplns_est and of cleanup (whole      *)
(* ledger).                                                                 *)
(***************************************************************************)
MaxAggLen == 3
AggAmounts == {0, 50, 100}
AggBudgets == {50, 100, 120, 150, 400}

AggInit ==
    /\ PoolInit
    /\ lastPoll = NoPoll
    /\ MonIdle
    /\ ExtIdle
    /\ \E n \in 0..MaxAggLen :
         \E f \in [1..n -> Users \X AggAmounts], budget \in AggBudgets, start \in 0..n :
            aggIn = [rows |-> LedgerOf(f), budget |-> budget, start |-> start]
    /\ aggOut = NoAgg

\* payout, lines 428-447: the walk from block.last_share and total_shares -= remain
AggPayout ==
    /\ aggIn.start # None
    /\ LET w == Walk(SharesDesc(aggIn.rows, aggIn.start), aggIn.budget)
       IN aggOut' = [kind |-> "payout", user_shares |-> w.user_shares,
                     remain |-> w.remain, total |-> aggIn.budget - w.remain,
                     stop_id |-> w.stop_id]
    /\ UNCHANGED <<aggIn, poolVars, lastPoll, monVars, extVars>>

\* update_pplns_est, lines 78-92: the walk over all shares and pplns_total_shares
AggEstimate ==
    /\ aggIn.start = None
    /\ LET w == Walk(AllSharesDesc(aggIn.rows), aggIn.budget)
       IN aggOut' = [kind |-> "estimate", user_shares |-> w.user_shares,
                     remain |-> w.remain, total |-> aggIn.budget - w.remain,
                     stop_id |-> w.stop_id]
    /\ UNCHANGED <<aggIn, poolVars, lastPoll, monVars, extVars>>

\* cleanup, lines 363-379: the walk that finds stale_id
AggCleanup ==
    /\ aggIn.start = None
    /\ aggOut' = [NoAgg EXCEPT !.kind = "cleanup",
                               !.stop_id = StaleId(AllSharesDesc(aggIn.rows), aggIn.budget)]
    /\ UNCHANGED <<aggIn, poolVars, lastPoll, monVars, extVars>>

NextAgg == AggPayout \/ AggEstimate \/ AggCleanup

SpecAgg == AggInit /\ [][NextAgg]_vars

\* the rows a walk sees, newest first
AggRows == IF aggIn.start # None THEN SharesDesc(aggIn.rows, aggIn.start)
           ELSE AllSharesDesc(aggIn.rows)

Min(a, b) == IF a <= b THEN a ELSE b

\* C7: the walk of payout and of the estimator credits min(budget, available)
\* in total: budget <= available on a non-empty ledger => exactly budget, nothing
\* unused; budget > available => all that is available, some budget unused, and
\* the total is reduced to what was counted.
C7_CreditsMinOfBudgetAndAvailable ==
    aggOut.kind \in {"payout", "estimate"} =>
        LET avail == SumShares(AggRows, Len(AggRows))
            credited == SumF(aggOut.user_shares)
        IN /\ credited = Min(aggIn.budget, avail)
           /\ (Len(AggRows) > 0 /\ aggIn.budget <= avail)
                 => (credited = aggIn.budget /\ aggOut.remain = 0)
           /\ aggIn.budget > avail
                 => (credited = avail /\ aggOut.remain > 0 /\ aggOut.total = avail)

\* C7 witness: payout's walk over a ledger that holds less than the budget below
\* the cursor, two users credited.
C7_Witness ==
    /\ aggOut.kind = "payout"
    /\ aggIn.budget > SumShares(AggRows, Len(AggRows))
    /\ \A u \in Users : u \in DOMAIN aggOut.user_shares /\ aggOut.user_shares[u] > 0

\* what the row at position i is credited when the walk stops at position k
\* (k = 0: it never stops)
CreditAt(rows, budget, k, i) ==
    IF k = 0 \/ i < k THEN rows[i].shares
    ELSE IF i = k THEN budget - SumShares(rows, k - 1)
    ELSE 0

RECURSIVE UserCredit(_, _, _, _, _)
\* the credits of user u over the first n rows
UserCredit(rows, budget, k, u, n) ==
    IF n = 0 THEN 0
    ELSE (IF rows[n].user = u THEN CreditAt(rows, budget, k, n) ELSE 0)
         + UserCredit(rows, budget, k, u, n - 1)

\* the result of a walk that stops at position k (0: runs off the end)
StopsAt(k) ==
    LET touched == IF k = 0 THEN Len(AggRows) ELSE k
    IN /\ aggOut.stop_id = (IF k = 0 THEN None ELSE AggRows[k].id)
       /\ aggOut.kind \in {"payout", "estimate"}
             => /\ DOMAIN aggOut.user_shares = {AggRows[i].user : i \in 1..touched}
                /\ \A u \in DOMAIN aggOut.user_shares :
                      aggOut.user_shares[u]
                         = UserCredit(AggRows, aggIn.budget, k, u, touched)

\* the first position whose row exceeds what remains of the budget
ExceededAt(rows, budget) ==
    IF \E k \in 1..Len(rows) : SumShares(rows, k) > budget
    THEN CHOOSE k \in 1..Len(rows) :
            /\ SumShares(rows, k) > budget
            /\ \A j \in 1..(k - 1) : SumShares(rows, j) <= budget
    ELSE 0

\* the example of the claim: (A, 100) newest, (B, 50) oldest, budget 120
Example ==
    /\ aggIn.rows = <<[id |-> 1, user |-> "B", shares |-> 50],
                      [id |-> 2, user |-> "A", shares |-> 100]>>
    /\ aggIn.budget = 120
    /\ aggIn.start \in {None, 2}

ExampleResult ==
    /\ aggOut.stop_id = 1
    /\ aggOut.kind \in {"payout", "estimate"}
          => /\ aggOut.user_shares = ("A" :> 100) @@ ("B" :> 20)
             /\ aggOut.remain = 0

\* C8 (as claimed): rows are walked newest first from the cursor; a row that
\* does not exceed what remains is credited in full and the walk goes on; the
\* first row that exceeds what remains is credited what remains and is the
\* boundary.  (Stated for rows that all hold shares.)
C8_StopsAtFirstRowExceeding ==
    (aggOut.kind # "none" /\ \A i \in 1..Len(AggRows) : AggRows[i].shares > 0) =>
        /\ StopsAt(ExceededAt(AggRows, aggIn.budget))
        /\ Example => ExampleResult

\* C8 (amended): a row smaller than what remains is credited in full and the
\* walk goes on; the first row that is at least what remains (the row at which
\* the running total reaches the budget) is credited what remains and is the
\* boundary, where the walk stops.
C8_StopsAtFirstRowReaching ==
    aggOut.kind # "none" =>
        /\ StopsAt(ReachedAt(AggRows, aggIn.budget))
        /\ Example => ExampleResult

\* C8 witness: the example, walked by payout: A = 100, B = 20 of its 50.
C8_Witness ==
    /\ Example
    /\ aggOut.kind = "payout"
    /\ ExampleResult

(***************************************************************************)
(* The threshold monitor of one (user, worker): agent_receive and           *)
(* check_down.  The clock is the age of the worker's Status row.            *)
(***************************************************************************)
\* payloads of the 'thresholds' message: overheat, lowhashrate (KH/s), offline (min)
ThresholdPayloads ==
    {[overheat |-> 80, lowhashrate |-> 1000, offline |-> 10],
     [overheat |-> 80, lowhashrate |-> 1000, offline |-> -1]}
Temps == {70, 80, 90}
MegaHashes == {0, 1, 2}
MaxDevices == 2
Ages == {0, 10, 11}

PayloadsOf(values) == UNION {[1..n -> values] : n \in 0..MaxDevices}

RECURSIVE SumSeq(_)
SumSeq(q) == IF Len(q) = 0 THEN 0 ELSE Head(q) + SumSeq(Tail(q))

\* Threshold.report_condition(message, typ, new_state): the flag is set to
\* new_state and one notification goes out.
ReportCondition(th, typ, new_state) ==
    [row |-> [th EXCEPT ![typ] = new_state],
     emitted |-> IF new_state THEN "problem" ELSE "resolved"]

Quiet(th) == [row |-> th, emitted |-> "none"]

\* agent_receive, typ == 'temp' with the problem reported on every overheated sample.
TempDecision_EverySample(th, payload) ==
    LET overheat_cards == {i \in 1..Len(payload) : th.exists /\ payload[i] >= th.temp_thresh}
    IN IF overheat_cards # {}
       THEN ReportCondition(th, "temp_err", TRUE)
       ELSE IF overheat_cards = {} /\ th.exists /\ th.temp_err
       THEN ReportCondition(th, "temp_err", FALSE)
       ELSE Quiet(th)

\* agent_receive, typ == 'temp'
TempDecision(th, payload) ==
    LET overheat_cards == {i \in 1..Len(payload) : th.exists /\ payload[i] >= th.temp_thresh}
    IN IF overheat_cards # {} /\ ~th.temp_err
       THEN ReportCondition(th, "temp_err", TRUE)
       ELSE IF overheat_cards = {} /\ th.exists /\ th.temp_err
       THEN ReportCondition(th, "temp_err", FALSE)
       ELSE Quiet(th)

\* agent_receive, typ == 'hashrate' with low_hash only strictly under the threshold.
HashrateDecision_StrictlyUnder(th, payload) ==
    LET hr == SumSeq(payload) * 1000
        low_hash == th.exists /\ hr < th.hashrate_thresh
    IN IF ~th.exists THEN Quiet(th)
       ELSE IF hr = 0 THEN Quiet(th)
       ELSE IF low_hash /\ ~th.hashrate_err
       THEN ReportCondition(th, "hashrate_err", TRUE)
       ELSE IF ~low_hash /\ th.hashrate_err
       THEN ReportCondition(th, "hashrate_err", FALSE)
       ELSE Quiet(th)

\* agent_receive, typ == 'hashrate'
HashrateDecision(th, payload) ==
    LET hr == SumSeq(payload) * 1000
        low_hash == th.exists /\ hr <= th.hashrate_thresh
    IN IF ~th.exists THEN Quiet(th)
       ELSE IF hr = 0 THEN Quiet(th)
       ELSE IF low_hash /\ ~th.hashrate_err
       THEN ReportCondition(th, "hashrate_err", TRUE)
       ELSE IF ~low_hash /\ th.hashrate_err
       THEN ReportCondition(th, "hashrate_err", FALSE)
       ELSE Quiet(th)

\* check_down, the body of the loop for one Threshold row, diff minutes offline
OfflineDecision(th, diff) ==
    IF ~th.offline_err /\ diff > th.offline_thresh
    THEN ReportCondition(th, "offline_err", TRUE)
    ELSE IF th.offline_err /\ diff <= th.offline_thresh
    THEN ReportCondition(th, "offline_err", FALSE)
    ELSE Quiet(th)

\* agent_receive(address, worker, 'thresholds', payload, timestamp): an empty
\* payload deletes the row, another one is merged into it (a new row starts with
\* its flags false)
AgentThresholds(payload, empty) ==
    /\ thresh' = IF empty THEN NoThresh
                 ELSE [thresh EXCEPT !.exists = TRUE,
                                     !.temp_thresh = payload.overheat,
                                     !.hashrate_thresh = payload.lowhashrate,
                                     !.offline_thresh = payload.offline]
    /\ lastSample' = NoSample
    /\ UNCHANGED statusAge

\* agent_receive(address, worker, 'status', payload, timestamp): the Status row
\* is written with the time of the message
AgentStatus ==
    /\ statusAge' = 0
    /\ lastSample' = NoSample
    /\ UNCHANGED thresh

\* time passes: datetime.utcnow() moves away from Status.time
Tick(age) ==
    /\ statusAge >= 0
    /\ age > statusAge
    /\ statusAge' = age
    /\ lastSample' = NoSample
    /\ UNCHANGED thresh

\* agent_receive(address, worker, 'temp', payload, timestamp)
AgentTemp(payload) ==
    LET d == TempDecision(thresh, payload)
    IN /\ thresh' = d.row
       /\ lastSample' = [typ |-> "temp", payload |-> payload, diff |-> 0,
                         before |-> thresh, emitted |-> d.emitted]
       /\ UNCHANGED statusAge

\* agent_receive(address, worker, 'hashrate', payload, timestamp)
AgentHashrate(payload) ==
    LET d == HashrateDecision(thresh, payload)
    IN /\ thresh' = d.row
       /\ lastSample' = [typ |-> "hashrate", payload |-> payload, diff |-> 0,
                         before |-> thresh, emitted |-> d.emitted]
       /\ UNCHANGED statusAge

\* check_down(): rows with an offline_thresh whose worker has a Status row
CheckDown ==
    IF thresh.exists /\ thresh.offline_thresh # -1 /\ statusAge # -1
    THEN LET d == OfflineDecision(thresh, statusAge)
         IN /\ thresh' = d.row
            /\ lastSample' = [typ |-> "offline", payload |-> <<>>, diff |-> statusAge,
                              before |-> thresh, emitted |-> d.emitted]
            /\ UNCHANGED statusAge
    ELSE /\ lastSample' = NoSample
         /\ UNCHANGED <<thresh, statusAge>>

MonInit ==
    /\ PoolInit
    /\ lastPoll = NoPoll
    /\ AggIdle
    /\ MonIdle
    /\ ExtIdle

NextMon ==
    \/ \E payload \in ThresholdPayloads, empty \in BOOLEAN :
          AgentThresholds(payload, empty) /\ UNCHANGED <<poolVars, lastPoll, aggVars, extVars>>
    \/ AgentStatus /\ UNCHANGED <<poolVars, lastPoll, aggVars, extVars>>
    \/ \E age \in Ages : Tick(age) /\ UNCHANGED <<poolVars, lastPoll, aggVars, extVars>>
    \/ \E payload \in PayloadsOf(Temps) :
          AgentTemp(payload) /\ UNCHANGED <<poolVars, lastPoll, aggVars, extVars>>
    \/ \E payload \in PayloadsOf(MegaHashes) :
          AgentHashrate(payload) /\ UNCHANGED <<poolVars, lastPoll, aggVars, extVars>>
    \/ CheckDown /\ UNCHANGED <<poolVars, lastPoll, aggVars, extVars>>

SpecMon == MonInit /\ [][NextMon]_vars

\* whether the recorded sample violates its threshold, as the code compares
Violating ==
    LET s == lastSample
    IN CASE s.typ = "temp" -> \E i \in 1..Len(s.payload) : s.payload[i] >= s.before.temp_thresh
         [] s.typ = "hashrate" -> SumSeq(s.payload) * 1000 <= s.before.hashrate_thresh
         [] s.typ = "offline" -> s.diff > s.before.offline_thresh
         [] OTHER -> FALSE

\* the *_err flag of the recorded sample's condition in Threshold row th
ErrFlag(th) ==
    CASE lastSample.typ = "temp" -> th.temp_err
      [] lastSample.typ = "hashrate" -> th.hashrate_err
      [] lastSample.typ = "offline" -> th.offline_err
      [] OTHER -> FALSE

\* one notification per run: a violating sample emits 'problem' and sets the
\* flag exactly when the flag was clear, a non-violating one emits 'resolved' and
\* clears it exactly when it was set, and no other sample emits anything
OnePerRun ==
    /\ (Violating /\ ~ErrFlag(lastSample.before))
          => (lastSample.emitted = "problem" /\ ErrFlag(thresh))
    /\ (Violating /\ ErrFlag(lastSample.before))
          => (lastSample.emitted = "none" /\ ErrFlag(thresh))
    /\ (~Violating /\ ErrFlag(lastSample.before))
          => (lastSample.emitted = "resolved" /\ ~ErrFlag(thresh))
    /\ (~Violating /\ ~ErrFlag(lastSample.before))
          => (lastSample.emitted = "none" /\ ~ErrFlag(thresh))

\* a sample of a worker that has a Threshold row
Sampled == lastSample.typ # "none" /\ lastSample.before.exists

ZeroHashrate == lastSample.typ = "hashrate" /\ SumSeq(lastSample.payload) * 1000 = 0

Raises(b) ==
    \/ blocks[b].last_share_id = None
    \/ blocks[b].total_value = 0
    \/ /\ DOMAIN PayoutWalk(b).user_shares # {}
       /\ PayoutWalk(b).remain = bits_to_shares(blocks[b].bits) * LastN

\* C11: a payout run that fails before its commit persists no Payout and no
\* BonusPayout row and leaves the block's processed, donated and bonus_payed
\* as they were; the run ends in the error that is raised for retry, and the
\* block is still the one the next run selects.
C11_FailedRunPersistsNothing ==
    [][(lastRun'.op = "payout" /\ lastRun'.block # 0 /\ Raises(lastRun'.block))
         => /\ lastRun'.outcome = "error"
            /\ UNCHANGED <<blocks, payouts, bonusPayouts>>
            /\ lastRun'.block \in OldestUnprocessed(blocks')]_vars

\* C11 witness: a run for a block of total_value 0 has failed and nothing of
\* the block is settled.
C11_Witness ==
    /\ lastRun.op = "payout"
    /\ lastRun.outcome = "error"
    /\ lastRun.block = 1
    /\ blocks[1].total_value = 0
    /\ ~blocks[1].processed
    /\ blocks[1].donated = 0 /\ blocks[1].bonus_payed = 0
    /\ payouts = EmptyBag /\ bonusPayouts = EmptyBag

(***************************************************************************)
(* The donation/bonus pass: a found block over one or two users' shares,    *)
(* with DonationPercent rows and a default_perc, then payout runs.          *)
(***************************************************************************)
DonateBits == {1}
DonateAmounts == {32768}
DonateValues == {100, 200}
DonatePercs == {-50, -29, 0, 7, 50}

PercConfigs ==
    {[custom |-> c, default_perc |-> d] :
        c \in UNION {[S -> DonatePercs] : S \in SUBSET Users}, d \in DonatePercs}

DonateInit ==
    /\ \E n \in 1..MaxShares :
         /\ \E f \in [1..n -> Users \X DonateAmounts] : ledger = LedgerOf(f)
         /\ nextId = n + 1
         /\ \E bits \in DonateBits, total_value \in DonateValues :
               blocks = <<[user |-> "A", height |-> 1, total_value |-> total_value,
                           bits |-> bits, last_share_id |-> n,
                           merged |-> FALSE, mature |-> FALSE, orphan |-> FALSE,
                           processed |-> FALSE, donated |-> 0, bonus_payed |-> 0]>>
    /\ payouts = EmptyBag
    /\ bonusPayouts = EmptyBag
    /\ lastRun = NoRun
    /\ lastPoll = NoPoll
    /\ AggIdle
    /\ MonIdle
    /\ percConfig \in PercConfigs
    /\ MinuteIdle
    /\ CacheIdle
    /\ PayIdle

NextDonate ==
    \E simulate \in BOOLEAN :
        Payout(simulate, [u \in Users |-> UserPerc(percConfig, u)], TRUE)
        /\ UNCHANGED <<lastPoll, aggVars, monVars, extVars>>

SpecDonate == DonateInit /\ [][NextDonate]_vars

\* ceil(perc/100 x payout) and floor(|perc|/100 x payout) in whole numbers
ExactDonation(perc, payout) == (perc * payout + 99) \div 100
ExactBonus(perc, payout) == ((-perc) * payout) \div 100

\* C12: in a committed payout run each user's percentage is the custom value
\* if there is one, else the default; for a percentage > 0 the donation is
\* ceil(percent/100 x payout), taken from the user and added to donation_total;
\* for a percentage < 0 the bonus is floor(|percent|/100 x payout), given to
\* the user and added to bonus_total; a percentage of 0 changes nothing.
C12_DonationPassExact ==
    (lastRun.op = "payout" /\ lastRun.outcome = "commit") =>
        LET b == lastRun.block
            rows == DOMAIN RowsOf(payouts, b)
        IN /\ \A r \in rows :
                LET payout == r.amount + r.perc_applied
                IN /\ r.perc = UserPerc(percConfig, r.user)
                   /\ r.perc > 0 => r.perc_applied = ExactDonation(r.perc, payout)
                   /\ r.perc < 0 => r.perc_applied = -ExactBonus(r.perc, payout)
                   /\ r.perc = 0 => r.perc_applied = 0
           /\ blocks[b].donated = SumF([r \in rows |-> Positive(r.perc_applied)])
           /\ blocks[b].bonus_payed = SumF([r \in rows |-> Positive(-r.perc_applied)])

(***************************************************************************)
(* The round robin of the truncation remainder.                             *)
(***************************************************************************)
\* the users in ascending order of their identifier
UsersAscending == <<"A", "B">>

RankOf(u) == CHOOSE i \in 1..Len(UsersAscending) : UsersAscending[i] = u

\* C13: in a committed payout run each user's raw payout is
\* floor(share_count x total_value / total_shares) and the remainder goes out
\* one unit at a time in ascending order of user identifier, so the amounts
\* before the donation/bonus pass are a function of the window and the block.
C13_RemainderAscending ==
    (lastRun.op = "payout" /\ lastRun.outcome = "commit") =>
        LET b == lastRun.block
            rows == DOMAIN RowsOf(payouts, b)
            total_shares == SumF([r \in rows |-> r.shares])
            Raw(r) == (r.shares * blocks[b].total_value) \div total_shares
            rest == blocks[b].total_value - SumF([r \in rows |-> Raw(r)])
            n == Cardinality(rows)
            \* position of r's user among the paid users, ascending
            Pos(r) == Cardinality({q \in rows : RankOf(q.user) <= RankOf(r.user)})
        IN \A r \in rows :
              r.amount + r.perc_applied
                 = Raw(r) + (rest \div n) + (IF Pos(r) <= rest % n THEN 1 ELSE 0)

(***************************************************************************)
(* The pool with its periodic tasks kept scheduled: cleanup runs are        *)
(* weakly fair, and so are payout runs, whose fairness is written with the  *)
(* enabling condition of a settling run spelled out (CanSettle): a payout   *)
(* run that can settle a block is eventually taken.                         *)
(***************************************************************************)
FairMiners == {"B"}
FairAnswers == {[kind |-> "ok", confirmations |-> 6],
                [kind |-> "notfound", confirmations |-> 0]}

ScheduledPayout ==
    \E percs \in [Users -> PoolPercs] :
        Payout(FALSE, percs, FALSE) /\ UNCHANGED <<lastPoll, aggVars, monVars, extVars>>

ScheduledCleanup ==
    Cleanup(FALSE, FALSE) /\ UNCHANGED <<lastPoll, aggVars, monVars, extVars>>

NextFair ==
    \/ \E user \in FairMiners, shares \in PoolAmounts :
          AddShare(user, shares) /\ UNCHANGED <<lastPoll, aggVars, monVars, extVars>>
    \/ \E user \in PoolFinders, height \in Heights, total_value \in TotalValues,
          bits \in PoolBits, merged \in BOOLEAN :
          \* the share that solved the block is in the ledger
          /\ Len(ledger) > 0
          /\ AddBlock(user, height, total_value, bits, merged)
          /\ lastPoll' = NoPoll
          /\ UNCHANGED <<aggVars, monVars, extVars>>
    \/ \E blockheight \in ChainHeights, outputs \in [Immature(blocks) -> FairAnswers] :
          UpdateBlockState(blockheight, outputs, FALSE)
          /\ UNCHANGED <<aggVars, monVars, extVars>>
    \/ ScheduledPayout
    \/ ScheduledCleanup

\* a non-simulated payout run would commit: some oldest unprocessed block has
\* a plan that passes
CanSettle ==
    \E b \in OldestUnprocessed(blocks), percs \in [Users -> PoolPercs] :
        \E ord \in Perms(DOMAIN PayoutWalk(b).user_shares) :
            PayoutPlan(b, percs, ord).outcome = "ok"

SpecFair ==
    /\ Init /\ [][NextFair]_vars
    /\ WF_vars(ScheduledCleanup)
    /\ []<>(~CanSettle)

\* C14: every non-merged block that becomes mature is eventually settled:
\* processed = true with its Payout rows committed.
C14_MatureEventuallySettled ==
    \A b \in 1..MaxBlocks :
        (b \in BlockIds /\ blocks[b].mature /\ ~blocks[b].merged)
            ~> (b \in BlockIds /\ blocks[b].processed /\ DOMAIN RowsOf(payouts, b) # {})

(***************************************************************************)
(* add_one_minute: concurrent deliveries for one (user, minute, worker).    *)
(* A task is at "share" (about to count its valid shares), at "reject"      *)
(* (about to count its rejects), in the except branch of either, or done.   *)
(* The unique key of a row is its type: minuteRows maps the types that have *)
(* a row to the row's value.                                                *)
(***************************************************************************)
MaxTasks == 2           \* add_one_minute tasks delivered
MaxRetries == 1         \* retries of one task
MinuteAmounts == {0, 1, 2}
RejectAmounts == {0, 1}

\* the count_share call a task makes next, from position pc on: 'if valid_shares:'
\* and 'if total_reject:' skip the calls with nothing to count
StepFrom(pc, task) ==
    IF pc = "share" /\ task.valid_shares # 0 THEN "share"
    ELSE IF pc \in {"share", "reject"} /\ task.total_reject # 0 THEN "reject"
    ELSE "done"

\* the amount a task counts for a type
AmountOf(task, typ) == IF typ = "share" THEN task.valid_shares ELSE task.total_reject

\* typ.create(user_, amount, minute, worker): a new row of the type
create(rows, typ, amount) == rows @@ (typ :> amount)

\* typ.add_value(user_, amount, minute, worker): the row's value grows by amount
add_value(rows, typ, amount) == [rows EXCEPT ![typ] = @ + amount]

\* the statement after a count_share call of type typ
After(typ) == IF typ = "share" THEN "reject" ELSE "done"

\* the except branch of count_share leaving the row as it is
CountShareConflict_GivesUp(t) ==
    /\ minuteTasks[t].pc \in {"share_conflict", "reject_conflict"}
    /\ LET typ == IF minuteTasks[t].pc = "share_conflict" THEN "share" ELSE "reject"
       IN /\ minuteRows' = minuteRows
          /\ minuteTasks' = [minuteTasks EXCEPT
                               ![t].pc = StepFrom(After(typ), minuteTasks[t])]

\* count_share, the try branch: typ.create(...) and db.session.commit(); the
\* commit raises IntegrityError when the key has a row
CountShare(t) ==
    /\ minuteTasks[t].pc \in {"share", "reject"}
    /\ LET typ == minuteTasks[t].pc
       IN IF typ \in DOMAIN minuteRows
          THEN /\ minuteTasks' = [minuteTasks EXCEPT ![t].pc =
                                     IF typ = "share" THEN "share_conflict"
                                                      ELSE "reject_conflict"]
               /\ UNCHANGED minuteRows
          ELSE /\ minuteRows' = create(minuteRows, typ, AmountOf(minuteTasks[t], typ))
               /\ minuteTasks' = [minuteTasks EXCEPT
                                     ![t].pc = StepFrom(After(typ), minuteTasks[t])]

\* count_share, the except branch: rollback, typ.add_value(...), commit
CountShareConflict(t) ==
    /\ minuteTasks[t].pc \in {"share_conflict", "reject_conflict"}
    /\ LET typ == IF minuteTasks[t].pc = "share_conflict" THEN "share" ELSE "reject"
       IN /\ minuteRows' = add_value(minuteRows, typ, AmountOf(minuteTasks[t], typ))
          /\ minuteTasks' = [minuteTasks EXCEPT
                               ![t].pc = StepFrom(After(typ), minuteTasks[t])]

\* any other exception in a count_share call: the handler rolls back what is
\* not committed and the task is retried from its start with the same arguments
RetryTask(t) ==
    /\ minuteTasks[t].pc # "done"
    /\ minuteTasks[t].retries < MaxRetries
    /\ minuteTasks' = [minuteTasks EXCEPT
                          ![t].pc = StepFrom("share", minuteTasks[t]),
                          ![t].retries = @ + 1]
    /\ UNCHANGED minuteRows

MinuteInit ==
    /\ PoolInit
    /\ lastPoll = NoPoll
    /\ AggIdle
    /\ MonIdle
    /\ PercIdle
    /\ CacheIdle
    /\ PayIdle
    /\ minuteRows = <<>>
    /\ \E n \in 1..MaxTasks :
         \E valid \in [1..n -> MinuteAmounts], reject \in [1..n -> RejectAmounts] :
            minuteTasks = [t \in 1..n |->
                             LET task == [pc |-> "share", valid_shares |-> valid[t],
                                          total_reject |-> reject[t], retries |-> 0]
                             IN [task EXCEPT !.pc = StepFrom("share", task)]]

NextMinute ==
    \/ \E t \in DOMAIN minuteTasks :
          CountShare(t) /\ UNCHANGED <<poolVars, lastPoll, aggVars, monVars, percConfig, cacheVars, payTasks>>
    \/ \E t \in DOMAIN minuteTasks :
          CountShareConflict(t) /\ UNCHANGED <<poolVars, lastPoll, aggVars, monVars, percConfig, cacheVars, payTasks>>
    \/ \E t \in DOMAIN minuteTasks :
          RetryTask(t) /\ UNCHANGED <<poolVars, lastPoll, aggVars, monVars, percConfig, cacheVars, payTasks>>

SpecMinute == MinuteInit /\ [][NextMinute]_vars

\* task t has completed its count_share call of type typ (in its current try)
Counted(t, typ) ==
    /\ AmountOf(minuteTasks[t], typ) # 0
    /\ minuteTasks[t].pc \in (IF typ = "share" THEN {"reject", "reject_conflict", "done"}
                                               ELSE {"done"})

MinuteTypes == {"share", "reject"}

\* the sum of the amounts for typ over the tasks in T
SumOver(T, typ) == SumF([t \in T |-> AmountOf(minuteTasks[t], typ)])

\* C15: whatever the interleaving of the deliveries for one key, a delivery
\* that meets an existing row falls back to the additive update (its row is
\* there, no uniqueness error is left standing), and the key has one row whose
\* value is the sum of the amounts delivered to it, or no row when nothing was
\* delivered.  Stated for deliveries none of which was retried.
C15_DeliveriesAddUp ==
    /\ \A t \in DOMAIN minuteTasks :
          /\ minuteTasks[t].pc = "share_conflict" => "share" \in DOMAIN minuteRows
          /\ minuteTasks[t].pc = "reject_conflict" => "reject" \in DOMAIN minuteRows
    /\ (\A t \in DOMAIN minuteTasks : minuteTasks[t].retries = 0) =>
          \A typ \in MinuteTypes :
             LET counted == {t \in DOMAIN minuteTasks : Counted(t, typ)}
             IN IF counted = {} THEN typ \notin DOMAIN minuteRows
                ELSE typ \in DOMAIN minuteRows /\ minuteRows[typ] = SumOver(counted, typ)

\* C15 witness: two deliveries of valid shares for the same key are done,
\* neither was retried, and the one row holds the sum of both.
C15_Witness ==
    /\ DOMAIN minuteTasks = {1, 2}
    /\ \A t \in {1, 2} : /\ minuteTasks[t].pc = "done"
                         /\ minuteTasks[t].retries = 0
                         /\ minuteTasks[t].valid_shares > 0
    /\ "share" \in DOMAIN minuteRows
    /\ minuteRows["share"] = minuteTasks[1].valid_shares + minuteTasks[2].valid_shares

\* C16: one add_one_minute invocation applies all of its aggregate updates or
\* none: once every task is done, retried or not, each aggregate holds every
\* task's amount exactly once.
C16_ExactlyOnceAfterRetry ==
    (\A t \in DOMAIN minuteTasks : minuteTasks[t].pc = "done") =>
        \A typ \in MinuteTypes :
           LET total == SumOver(DOMAIN minuteTasks, typ)
           IN IF total = 0 THEN typ \notin DOMAIN minuteRows
              ELSE typ \in DOMAIN minuteRows /\ minuteRows[typ] = total

(***************************************************************************)
(* Lookup failures in a lifecycle poll.                                     *)
(***************************************************************************)
\* the blocks the recorded poll looked up
Polled == {i \in 1..Len(lastPoll.before) :
              ~lastPoll.before[i].mature /\ ~lastPoll.before[i].orphan}

\* what the recorded poll has to leave of block j, whose lookup succeeded
Evaluated(j) ==
    LET C == lastPoll.outputs[j].confirmations
        H == lastPoll.blockheight
        B == lastPoll.before[j].height
    IN /\ blocks[j].mature = (C > MatureDiff)
       /\ blocks[j].orphan = (C <= MatureDiff /\ (H - B) > MatureDiff /\ C < MatureDiff)

SamePollAgain ==
    /\ lastPoll # NoPoll
    /\ lastPoll' # NoPoll
    /\ lastPoll'.blockheight = lastPoll.blockheight
    /\ \A i \in Immature(blocks) : lastPoll'.outputs[i] = lastPoll.outputs[i]

\* C18: no step of the lifecycle changes a block that has mature = true or
\* orphan = true, no block is ever both mature and orphan, and a second poll
\* against an unchanged chain state changes nothing.
C18_DecidedBlocksStay ==
    [][/\ \A i \in BlockIds :
            (blocks[i].mature \/ blocks[i].orphan) => blocks'[i] = blocks[i]
       /\ \A i \in 1..Len(blocks') : ~(blocks'[i].mature /\ blocks'[i].orphan)
       /\ SamePollAgain => blocks' = blocks]_vars

\* C18 witness: a committed poll ran while one block was mature and another
\* orphan, and both are as they were.
C18_Witness ==
    /\ lastPoll # NoPoll
    /\ lastPoll.committed
    /\ \E i, j \in 1..Len(lastPoll.before) :
          /\ lastPoll.before[i].mature /\ blocks[i] = lastPoll.before[i]
          /\ lastPoll.before[j].orphan /\ blocks[j] = lastPoll.before[j]

(***************************************************************************)
(* Cursors and the shares they point to.                                    *)
(***************************************************************************)
\* C19: every block whose last_share_id is not NULL refers to a Share row that
\* is in the ledger.
C19_NoDanglingCursor ==
    \A b \in BlockIds :
        blocks[b].last_share_id # None => blocks[b].last_share_id \in ShareIds(ledger)

\* C19 witness: cleanup has deleted shares and cleared a cursor, and a block
\* found since points to a share that is kept.
C19_Witness ==
    /\ Len(ledger) > 0
    /\ ledger[1].id > 1
    /\ \E b, c \in BlockIds :
          /\ blocks[b].last_share_id = None
          /\ blocks[c].last_share_id \in ShareIds(ledger)

(***************************************************************************)
(* cleanup alone: a ledger and at most one block, drawn from the cases of   *)
(* the walk (budget reached inside a row, exactly at a row, not reached,    *)
(* zero-share rows), then cleanup runs.                                     *)
(***************************************************************************)
CleanAmounts == {0, 36044800, 72089600}
CleanMiners == {"B"}

CleanInit ==
    /\ \E n \in 0..MaxShares :
         /\ \E f \in [1..n -> CleanMiners \X CleanAmounts] : ledger = LedgerOf(f)
         /\ nextId = n + 1
         /\ \/ blocks = <<>>
            \/ \E start \in 0..n, processed \in BOOLEAN :
                  blocks = <<[user |-> "A", height |-> 1, total_value |-> 5,
                              bits |-> 2200, last_share_id |-> start,
                              merged |-> FALSE, mature |-> FALSE, orphan |-> FALSE,
                              processed |-> processed, donated |-> 0, bonus_payed |-> 0]>>
    /\ payouts = EmptyBag
    /\ bonusPayouts = EmptyBag
    /\ lastRun = NoRun
    /\ lastPoll = NoPoll
    /\ AggIdle
    /\ MonIdle
    /\ ExtIdle

NextClean ==
    \E simulate \in BOOLEAN :
        Cleanup(simulate, TRUE) /\ UNCHANGED <<lastPoll, aggVars, monVars, extVars>>

SpecClean == CleanInit /\ [][NextClean]_vars

\* C20: a cleanup run whose budget is reached at boundary_id, the first row,
\* newest first, at which the running total reaches the budget, keeps exactly
\* the rows with id >= boundary_id when it is not simulated (and clears the
\* cursors <= boundary_id, no other); a run over a ledger that holds less than
\* the budget deletes no row and clears no cursor.
C20_CleanupDeletesBelowBoundary ==
    [][(lastRun'.op = "cleanup") =>
         LET rows == AllSharesDesc(ledger)
             k == ReachedAt(rows, CleanupBudget(blocks))
         IN IF k = 0
            THEN ledger' = ledger /\ blocks' = blocks
            ELSE /\ lastRun'.outcome \in {"commit", "simulated"}
                 /\ lastRun'.outcome = "simulated" => (ledger' = ledger /\ blocks' = blocks)
                 /\ lastRun'.outcome = "commit" =>
                      /\ ledger' = SelectSeq(ledger, LAMBDA r : r.id >= rows[k].id)
                      /\ \A b \in BlockIds :
                            blocks'[b] =
                               IF blocks[b].last_share_id # None
                                  /\ blocks[b].last_share_id <= rows[k].id
                               THEN [blocks[b] EXCEPT !.last_share_id = None]
                               ELSE blocks[b]]_vars

\* C20 witness: a committed cleanup run has deleted the rows below its boundary
\* and kept the boundary row and a newer one.
C20_Witness ==
    /\ lastRun.op = "cleanup"
    /\ lastRun.outcome = "commit"
    /\ lastRun.stale_id > 1
    /\ Len(ledger) >= 2
    /\ ledger[1].id = lastRun.stale_id

(***************************************************************************)
(* new_block and the cache.  block_cache is the redis list of the bits      *)
(* pushed; every key of the cache but the list has a time to live.          *)
(***************************************************************************)
TrimStop == 500         \* ltrim('block_cache', 0, 500) and lrange(.., 0, 500)
MaxPush == 4            \* notifications of a new height delivered in one run
MaxSameSecond == 1      \* further notifications within the second of a netdiff row
CacheBits == {550, 1100}
CacheRewards == {5}

\* cryptokit.bits_to_difficulty; Block.bits is kept as the difficulty it encodes
bits_to_difficulty(bits) == bits

RECURSIVE SumBetween(_, _, _)
\* q[lo] + ... + q[hi], by halves
SumBetween(q, lo, hi) ==
    IF lo > hi THEN 0
    ELSE IF lo = hi THEN q[lo]
    ELSE LET mid == (lo + hi) \div 2
         IN SumBetween(q, lo, mid) + SumBetween(q, mid + 1, hi)

\* sum([...]) of a list
SumList(q) == SumBetween(q, 1, Len(q))

\* redis LTRIM key start stop / LRANGE key start stop: both ends are inclusive
ListRange(q, start, stop) == SubSeq(q, start + 1, Min(Len(q), stop + 1))

\* OneMinuteType(typ='netdiff', value=difficulty * 1000, time=now): a new row, or
\* on IntegrityError the average with the row of the same second
NetdiffRow(row, difficulty, same_second) ==
    IF same_second /\ row.den > 0
    THEN [num |-> difficulty * 1000 * row.den + row.num, den |-> 2 * row.den]
    ELSE [num |-> difficulty * 1000, den |-> 1]

\* new_block(blockheight, bits, reward); same_second: now is the time of the
\* latest netdiff row
NewBlock(blockheight, bits, reward, same_second) ==
    IF blockheight = cacheNet.blockheight
    THEN UNCHANGED cacheVars
    ELSE LET diff_list == ListRange(ListRange(<<bits>> \o blockCache, 0, TrimStop),
                                    0, TrimStop)
         IN /\ cacheNet' = [blockheight |-> blockheight,
                            difficulty |-> bits_to_difficulty(bits),
                            reward |-> reward]
            /\ blockCache' = ListRange(<<bits>> \o blockCache, 0, TrimStop)
            /\ difficultyAvg' =
                 [total |-> SumList([i \in 1..Len(diff_list) |->
                                       bits_to_difficulty(diff_list[i])]),
                  n |-> Len(diff_list)]
            /\ netdiff' = NetdiffRow(netdiff, bits_to_difficulty(bits), same_second)

\* the 120 minutes of 'difficulty_avg' have passed
ExpireAvg ==
    /\ difficultyAvg # NoAvg
    /\ difficultyAvg' = NoAvg
    /\ UNCHANGED <<blockCache, cacheNet, netdiff>>

\* the 1200 seconds of 'blockheight', 'difficulty' and 'reward' have passed
ExpireNet ==
    /\ cacheNet # NoNet
    /\ cacheNet' = NoNet
    /\ UNCHANGED <<blockCache, difficultyAvg, netdiff>>

\* the cache after n notifications of heights 1..n, each of bits 550 and each
\* in a second of its own
CacheAfter(n) ==
    /\ blockCache = [i \in 1..n |-> 550]
    /\ difficultyAvg = IF n = 0 THEN NoAvg ELSE [total |-> 550 * n, n |-> n]
    /\ cacheNet = IF n = 0 THEN NoNet
                  ELSE [blockheight |-> n, difficulty |-> 550, reward |-> 5]
    /\ netdiff = IF n = 0 THEN NoNetdiff ELSE [num |-> 550000, den |-> 1]

\* the runs start on an empty cache and on one that is two short of TrimStop + 1
CacheStarts == {0, TrimStop - 1}

CacheInit ==
    /\ PoolInit
    /\ lastPoll = NoPoll
    /\ AggIdle
    /\ MonIdle
    /\ PercIdle
    /\ MinuteIdle
    /\ PayIdle
    /\ \E n \in CacheStarts : CacheAfter(n)

NextCache ==
    \/ \E up \in {0, 1}, bits \in CacheBits, reward \in CacheRewards,
          same_second \in BOOLEAN :
          /\ \E n \in CacheStarts : cacheNet.blockheight + up \in (n + 1)..(n + MaxPush)
          /\ same_second => netdiff.den < 2^MaxSameSecond
          /\ NewBlock(cacheNet.blockheight + up, bits, reward, same_second)
          /\ UNCHANGED <<poolVars, lastPoll, aggVars, monVars, percConfig,
                         minuteRows, minuteTasks, payTasks>>
    \/ ExpireAvg /\ UNCHANGED <<poolVars, lastPoll, aggVars, monVars, percConfig,
                                minuteRows, minuteTasks, payTasks>>

SpecCache == CacheInit /\ [][NextCache]_vars

\* C23: after every new_block notification block_cache holds at most 500
\* entries, the bits just pushed in front of the entries held before with the
\* oldest trimmed, and difficulty_avg, when present, is the mean of exactly the
\* entries of block_cache.
C23_WindowOfAtMost500 ==
    [][/\ Len(blockCache') <= 500
       /\ blockCache' # blockCache =>
             blockCache' = SubSeq(<<blockCache'[1]>> \o blockCache, 1,
                                  Min(Len(blockCache) + 1, 500))
       /\ difficultyAvg'.n > 0 =>
             /\ difficultyAvg'.n = Len(blockCache')
             /\ difficultyAvg'.total = SumList(blockCache')]_vars

(***************************************************************************)
(* cleanup next to the cache: difficulty_avg is absent, or the mean of the  *)
(* blocks notified, when cleanup runs.                                      *)
(***************************************************************************)
MaxCached == 2          \* entries of block_cache
RetainHeights == {1, 2}
RetainBits == {1100, 2200}

NextRetain ==
    \/ \E blockheight \in RetainHeights, bits \in RetainBits, reward \in CacheRewards :
          /\ Len(blockCache) < MaxCached
          /\ NewBlock(blockheight, bits, reward, FALSE)
          /\ UNCHANGED <<poolVars, lastPoll, aggVars, monVars, percConfig,
                         minuteRows, minuteTasks, payTasks>>
    \/ ExpireAvg /\ UNCHANGED <<poolVars, lastPoll, aggVars, monVars, percConfig,
                                minuteRows, minuteTasks, payTasks>>
    \/ ExpireNet /\ UNCHANGED <<poolVars, lastPoll, aggVars, monVars, percConfig,
                                minuteRows, minuteTasks, payTasks>>
    \/ \E simulate \in BOOLEAN :
          Cleanup(simulate, TRUE) /\ UNCHANGED <<lastPoll, aggVars, monVars, extVars>>

SpecRetain == CleanInit /\ [][NextRetain]_vars

\* the rows with their shares multiplied by n: comparing them with total * x
\* is comparing the shares with (total / n) * x
TimesN(rows, n) == [i \in 1..Len(rows) |-> [rows[i] EXCEPT !.shares = @ * n]]

\* C21: the boundary of a cleanup run is the first row, newest first, at which
\* the running total reaches average_difficulty x 2^16 x (unprocessed
\* non-merged blocks x N + cleanup_n + N), average_difficulty being the cached
\* difficulty_avg; a run that finds difficulty_avg absent deletes no share and
\* clears no cursor.
C21_BudgetFromCachedAverage ==
    [][(lastRun'.op = "cleanup") =>
         IF difficultyAvg.n = 0
         THEN ledger' = ledger /\ blocks' = blocks
         ELSE LET rows == TimesN(AllSharesDesc(ledger), difficultyAvg.n)
                  k == ReachedAt(rows, difficultyAvg.total * TwoPow16
                                       * (UnprocBlocks(blocks) * LastN + CleanupN + LastN))
              IN lastRun'.stale_id = IF k = 0 THEN 0 ELSE rows[k].id]_vars

(***************************************************************************)
(* Simulate mode: payout(simulate=True) and cleanup(simulate=True) over the *)
(* ledgers and blocks of CleanInit.                                         *)
(***************************************************************************)
NextSimulate ==
    \/ \E percs \in [Users -> Percs] :
          Payout(TRUE, percs, TRUE) /\ UNCHANGED <<lastPoll, aggVars, monVars, extVars>>
    \/ Cleanup(TRUE, TRUE) /\ UNCHANGED <<lastPoll, aggVars, monVars, extVars>>

SpecSimulate == CleanInit /\ [][NextSimulate]_vars

\* C22: a run in simulate mode changes no durable state: payout(simulate=True)
\* does the whole computation for a block it can settle (its amounts sum to
\* total_value) but writes no Payout or BonusPayout row and leaves processed,
\* donated and bonus_payed as they were; cleanup(simulate=True) computes the
\* boundary but deletes no share and clears no cursor.
C22_SimulateChangesNothing ==
    [][/\ UNCHANGED <<ledger, nextId, blocks, payouts, bonusPayouts>>
       /\ (lastRun'.op = "payout" /\ lastRun'.block # 0 /\ ~Raises(lastRun'.block)) =>
             /\ lastRun'.outcome = "simulated"
             /\ lastRun'.presum = blocks[lastRun'.block].total_value
       /\ lastRun'.op = "cleanup" =>
             /\ lastRun'.stale_id = StaleId(AllSharesDesc(ledger), CleanupBudget(blocks))
             /\ lastRun'.outcome = IF lastRun'.stale_id = 0 THEN "nothing"
                                   ELSE "simulated"]_vars

\* C22 witness: a simulated cleanup has computed a boundary above the oldest
\* share, for a block that payout can settle and whose cursor is below the
\* boundary; every share, the cursor and the empty payout tables are in place.
C22_Witness ==
    /\ lastRun.op = "cleanup"
    /\ lastRun.outcome = "simulated"
    /\ lastRun.stale_id > 1
    /\ Len(ledger) = MaxShares
    /\ Len(blocks) = 1
    /\ blocks[1].last_share_id = 1
    /\ ~blocks[1].processed
    /\ ~Raises(1)
    /\ payouts = EmptyBag /\ bonusPayouts = EmptyBag

(***************************************************************************)
(* Hashrate samples of a worker with a Threshold row.                       *)
(***************************************************************************)
\* the recorded sample is a hashrate sample of a worker with a Threshold row
HashrateSampled == lastSample.typ = "hashrate" /\ lastSample.before.exists

\* sum(payload) * 1000 of the recorded sample, in KH/s
SampledRate == SumSeq(lastSample.payload) * 1000

\* what a hashrate sample that counts as low when low holds has to do: 'problem'
\* goes out exactly when it is low and hashrate_err was false, and afterwards
\* hashrate_err is whether it was low
HashrateFollows(low) ==
    /\ lastSample.emitted = "problem" <=> (low /\ ~lastSample.before.hashrate_err)
    /\ thresh.hashrate_err = low

NextSettle ==
    \/ \E simulate \in BOOLEAN, percs \in [Users -> Percs] :
          Payout(simulate, percs, TRUE) /\ UNCHANGED <<lastPoll, aggVars, monVars, extVars>>
    \/ Cleanup(FALSE, TRUE) /\ UNCHANGED <<lastPoll, aggVars, monVars, extVars>>

SpecSettle == CleanInit /\ [][NextSettle]_vars

\* the increments ('i') the round robin of a run for block b makes: what is
\* left of total_value after the truncated payouts, and -1 for a loop that has
\* something left and no user to give it to, which never ends
Increments(b) ==
    LET w == PayoutWalk(b)
        total_shares == bits_to_shares(blocks[b].bits) * LastN - w.remain
        rest == blocks[b].total_value
                  - SumF(RawPayouts(w.user_shares, blocks[b].total_value, total_shares))
    IN IF rest <= 0 THEN 0
       ELSE IF DOMAIN w.user_shares = {} THEN -1
       ELSE rest

\* C26: in every reachable state the run for the block payout selects ends:
\* either it raises before the round robin (no cursor, no share counted,
\* total_value 0), or the round robin makes a finite number of increments, at
\* most total_value, and the run goes on to commit or to fail an assertion.
C26_PayoutRunTerminates ==
    \A b \in OldestUnprocessed(blocks) :
        \/ Raises(b)
        \/ /\ Increments(b) \in 0..blocks[b].total_value
           /\ \A ord \in Perms(DOMAIN PayoutWalk(b).user_shares) :
                 PayoutPlan(b, [u \in Users |-> 0], ord).outcome \in {"ok", "error"}

\* C26 witness: a run for a block whose window holds rows of 0 shares only has
\* ended, in the error of the division by the 0 shares counted.
C26_Witness ==
    /\ lastRun.op = "payout"
    /\ lastRun.outcome = "error"
    /\ lastRun.block = 1
    /\ blocks[1].last_share_id # None
    /\ DOMAIN PayoutWalk(1).user_shares # {}
    /\ \A u \in DOMAIN PayoutWalk(1).user_shares : PayoutWalk(1).user_shares[u] = 0

(***************************************************************************)
(* payout as overlapping transactions.  A task reads the block and the      *)
(* shares and computes (lines 417-531), and later writes and commits        *)
(* (540-566); other tasks may read or commit in between.  A failed task is  *)
(* rolled back and retried (567-570).                                       *)
(***************************************************************************)
NewTask == [pc |-> "start", block |-> 0, rows |-> EmptyBag, bonus |-> EmptyBag,
            donated |-> 0, bonus_payed |-> 0, retries |-> 0]

\* the Payout table takes no second row of a user for a block
UniqueViolation_Never(rows, table) == FALSE

\* the Payout table holds one row per user per settled block: an insert of a
\* (user, block) that is there is a uniqueness conflict
UniqueViolation(rows, table) ==
    \E r \in DOMAIN rows, x \in DOMAIN table : x.user = r.user /\ x.block = r.block

\* payout.delay() in add_block, a scheduled run or a second delivery
PayoutDelay ==
    /\ Len(payTasks) < MaxTasks
    /\ payTasks' = Append(payTasks, NewTask)
    /\ UNCHANGED poolVars

\* task t selects its block, walks the shares and computes the distribution
PayoutRead(t, percs) ==
    /\ payTasks[t].pc = "start"
    /\ \/ /\ OldestUnprocessed(blocks) = {}
          /\ payTasks' = [payTasks EXCEPT ![t].pc = "done"]
       \/ \E b \in OldestUnprocessed(blocks) :
          \E ord \in Perms(DOMAIN PayoutWalk(b).user_shares) :
             LET plan == PayoutPlan(b, percs, ord)
             IN /\ plan.outcome # "hang"
                /\ payTasks' =
                     [payTasks EXCEPT ![t] =
                        IF plan.outcome = "error"
                        THEN [@ EXCEPT !.pc = "failed"]
                        ELSE [@ EXCEPT !.pc = "computed",
                                       !.block = b,
                                       !.rows = PayoutRows(b, plan.final, plan.user_shares,
                                                           percs, plan.applied),
                                       !.bonus = BonusRows(b, blocks[b], plan.donation_total),
                                       !.donated = plan.donation_total,
                                       !.bonus_payed = plan.bonus_total]]
    /\ UNCHANGED poolVars

\* task t writes its rows and the block's fields and commits, or fails on the
\* conflict
PayoutCommit(t) ==
    /\ payTasks[t].pc = "computed"
    /\ IF UniqueViolation(payTasks[t].rows, payouts)
       THEN /\ payTasks' = [payTasks EXCEPT ![t].pc = "failed"]
            /\ UNCHANGED <<blocks, payouts, bonusPayouts>>
       ELSE /\ payouts' = payouts (+) payTasks[t].rows
            /\ blocks' = [blocks EXCEPT ![payTasks[t].block].processed = TRUE,
                                        ![payTasks[t].block].donated = payTasks[t].donated,
                                        ![payTasks[t].block].bonus_payed =
                                             payTasks[t].bonus_payed]
            /\ bonusPayouts' = bonusPayouts (+) payTasks[t].bonus
            /\ payTasks' = [payTasks EXCEPT ![t].pc = "done"]
    /\ UNCHANGED <<ledger, nextId, lastRun>>

\* db.session.rollback(); raise self.retry(exc=exc)
PayoutRetry(t) ==
    /\ payTasks[t].pc = "failed"
    /\ payTasks[t].retries < MaxRetries
    /\ payTasks' = [payTasks EXCEPT ![t] = [NewTask EXCEPT !.retries = payTasks[t].retries + 1]]
    /\ UNCHANGED poolVars

NextConc ==
    \/ PayoutDelay /\ UNCHANGED <<lastPoll, aggVars, monVars, percConfig, minuteRows,
                                  minuteTasks, cacheVars>>
    \/ \E t \in DOMAIN payTasks, percs \in [Users -> PoolPercs] :
          PayoutRead(t, percs) /\ UNCHANGED <<lastPoll, aggVars, monVars, percConfig,
                                              minuteRows, minuteTasks, cacheVars>>
    \/ \E t \in DOMAIN payTasks :
          PayoutCommit(t) /\ UNCHANGED <<lastPoll, aggVars, monVars, percConfig,
                                         minuteRows, minuteTasks, cacheVars>>
    \/ \E t \in DOMAIN payTasks :
          PayoutRetry(t) /\ UNCHANGED <<lastPoll, aggVars, monVars, percConfig,
                                        minuteRows, minuteTasks, cacheVars>>

SpecConc == PayInit /\ [][NextConc]_vars

====
